---- MODULE Spec2Model ----
(***************************************************************************)
(* Model of nodebb-plugin-aws-s3-upload (src/library.js).                  *)
(*                                                                         *)
(* JavaScript strings are modelled as sequences of one-character strings,  *)
(* so that path.extname, the regular expressions, startsWith and the       *)
(* template literals are computed character by character.  An async        *)
(* function is split at its await points: each action is the synchronous   *)
(* run of the code between two awaits.                                     *)
(***************************************************************************)
EXTENDS Integers, Sequences, FiniteSets, TLC

VARIABLES
    settings,       \* plugin.settings (library.js:27-36)
    reloadPending,  \* reloadSettings calls suspended at `await meta.settings.get`
    lastIncoming,   \* `settings` local of the reloadSettings call that resumed last
    pc,             \* position of the upload call
    op,             \* entry point that was called
    req,            \* the `file` / `image` object and `folder` of the call
    env,            \* host state read by the call: meta.config, allowedExtensions(), remote server
    params,         \* `params` local of uploadToS3 (Bucket, Key, ContentLength)
    client,         \* configuration given to new S3.S3Client
    used,           \* plugin.settings fields the call has read so far, with the value read
    netIO,          \* network-facing steps the call has performed, in order
    stored,         \* keys of the objects the call's PUTs stored
    status,         \* "none" | "returned" | "thrown"
    result,         \* value the call returned
    error,          \* Error the call threw
    thrownAt,       \* step in which the error was thrown
    log,            \* winston.error messages of the call
    extPath,        \* isExtensionAllowed: filePath argument
    extAllowed,     \* isExtensionAllowed: allowed argument
    extDone,        \* isExtensionAllowed has been applied
    extResult       \* isExtensionAllowed: returned value

vars == <<settings, reloadPending, lastIncoming, pc, op, req, env, params, client,
          used, netIO, stored, status, result, error, thrownAt, log,
          extPath, extAllowed, extDone, extResult>>

reloadVars == <<settings, reloadPending, lastIncoming>>
uploadVars == <<pc, op, req, env, params, client, used, netIO, stored, status,
                result, error, thrownAt, log>>
extVars == <<extPath, extAllowed, extDone, extResult>>

-----------------------------------------------------------------------------
(* Bounds *)

MaxPresent == 2     \* fields a stored settings hash carries at most
MaxPending == 2     \* reloadSettings calls suspended at their await at most
MaxPathLen == 4     \* length of the paths given to isExtensionAllowed on its own

-----------------------------------------------------------------------------
(* Strings *)

Range(s) == {s[i] : i \in 1..Len(s)}

\* String.prototype.startsWith
startsWith(s, prefix) ==
    /\ Len(prefix) <= Len(s)
    /\ SubSeq(s, 1, Len(prefix)) = prefix

endsWith(s, suffix) ==
    /\ Len(suffix) <= Len(s)
    /\ SubSeq(s, Len(s) - Len(suffix) + 1, Len(s)) = suffix

\* a substring test, used to state what a scheme is
contains(s, part) ==
    \E i \in 1..(Len(s) + 1) : startsWith(SubSeq(s, i, Len(s)), part)

lowerOf(c) ==
    CASE c = "A" -> "a"
      [] c = "E" -> "e"
      [] c = "P" -> "p"
      [] OTHER -> c

\* String.prototype.toLowerCase
toLowerCase(s) == [i \in 1..Len(s) |-> lowerOf(s[i])]

DigitChars == <<"0", "1", "2", "3", "4", "5", "6", "7", "8", "9">>

\* Number to string, as a template literal prints it
RECURSIVE numberToString(_)
numberToString(n) ==
    IF n < 10 THEN <<DigitChars[n + 1]>>
    ELSE numberToString(n \div 10) \o <<DigitChars[(n % 10) + 1]>>

\* Array.prototype.join
RECURSIVE join(_, _)
join(list, sep) ==
    IF Len(list) = 0 THEN <<>>
    ELSE IF Len(list) = 1 THEN list[1]
    ELSE list[1] \o sep \o join(Tail(list), sep)

Max(S) == CHOOSE x \in S : \A y \in S : y <= x

(***************************************************************************)
(* path.extname (POSIX), as Node computes it: trailing slashes are         *)
(* skipped, the last path component is taken, and the extension runs from  *)
(* that component's last dot to its end; it is empty when the component    *)
(* has no dot, when its only dot is its first character, and when the      *)
(* component is "..".                                                      *)
(***************************************************************************)
extname(p) ==
    LET nonSlash == {i \in 1..Len(p) : p[i] # "/"}
    IN  IF nonSlash = {} THEN <<>>
        ELSE
          LET end       == Max(nonSlash)
              slashes   == {i \in 1..end : p[i] = "/"}
              startPart == IF slashes = {} THEN 1 ELSE Max(slashes) + 1
              dots      == {i \in startPart..end : p[i] = "."}
          IN  IF dots = {} THEN <<>>
              ELSE
                LET startDot == Max(dots)
                IN  IF \/ startDot = startPart
                       \/ /\ p[startPart] = "."
                          /\ startDot = end
                          /\ startDot = startPart + 1
                    THEN <<>>
                    ELSE SubSeq(p, startDot, end)

\* allowed.includes(extension)
includes(list, x) == \E i \in 1..Len(list) : list[i] = x

\* a mutation: the `extension === '.'` test is left out
isExtensionAllowedNoBareDot(filePath, allowed) ==
    LET extension == toLowerCase(extname(filePath))
    IN  ~ ( /\ Len(allowed) > 0
            /\ \/ Len(extension) = 0
               \/ ~ includes(allowed, extension) )

\* plugin.isExtensionAllowed (library.js:265-271)
isExtensionAllowed(filePath, allowed) ==
    LET extension == toLowerCase(extname(filePath))
    IN  ~ ( /\ Len(allowed) > 0
            /\ \/ Len(extension) = 0
               \/ extension = <<".">>
               \/ ~ includes(allowed, extension) )

-----------------------------------------------------------------------------
(* Settings and reloadSettings (library.js:27-36, 61-86) *)

Fields == {"accessKeyId", "secretAccessKey", "region", "bucket", "uploadPath", "host"}

\* the literal of library.js:28-35
DefaultSettings ==
    [accessKeyId |-> <<>>, secretAccessKey |-> <<>>, region |-> <<>>,
     bucket |-> <<>>, uploadPath |-> <<>>, host |-> <<>>]

\* a mutation: a field the hash carries is stored even when it is empty
suppliesAny(incoming, f) ==
    f \in DOMAIN incoming

\* `settings.f && settings.f.length`: the hash has the field and it is not empty
suppliesNonEmpty(incoming, f) ==
    /\ f \in DOMAIN incoming
    /\ Len(incoming[f]) > 0

\* one `if (...) { plugin.settings.f = settings.f; }` of library.js:68-85
overrideField(cur, incoming, f) ==
    IF suppliesNonEmpty(incoming, f) THEN incoming[f] ELSE cur[f]

\* library.js:68-85, the six assignments, run without an await between them
applySettings(cur, incoming) ==
    [accessKeyId     |-> overrideField(cur, incoming, "accessKeyId"),
     secretAccessKey |-> overrideField(cur, incoming, "secretAccessKey"),
     region          |-> overrideField(cur, incoming, "region"),
     bucket          |-> overrideField(cur, incoming, "bucket"),
     uploadPath      |-> overrideField(cur, incoming, "uploadPath"),
     host            |-> overrideField(cur, incoming, "host")]

\* values a stored settings field takes in the reload model
FieldValues == {<<>>, <<"a">>, <<"b">>}

\* settings hashes meta.settings.get returns: any MaxPresent fields at most, each
\* empty or not
PartialHashes ==
    UNION {[D -> FieldValues] : D \in {E \in SUBSET Fields : Cardinality(E) <= MaxPresent}}

HookData == {"undefined", "aws-s3-upload", "other-plugin"}

\* plugin.reloadSettings up to its await (library.js:61-66): a call made for
\* another plugin returns at once, any other call asks for the stored hash
ReloadSettingsCall ==
    /\ \E data \in HookData :
         IF data # "undefined" /\ data # "aws-s3-upload"
         THEN UNCHANGED reloadPending
         ELSE /\ reloadPending < MaxPending
              /\ reloadPending' = reloadPending + 1
    /\ UNCHANGED <<settings, lastIncoming>>

\* `await meta.settings.get(...)` resolves with a hash; the continuation of
\* the call is queued (one continuation is queued at a time)
ReloadSettingsResolve(Hashes) ==
    /\ reloadPending > 0
    /\ lastIncoming = <<>>
    /\ \E h \in Hashes : lastIncoming' = <<h>>
    /\ UNCHANGED <<settings, reloadPending>>

\* the continuation runs: library.js:68-85
ReloadSettingsResume ==
    /\ lastIncoming # <<>>
    /\ settings' = applySettings(settings, lastIncoming[1])
    /\ lastIncoming' = <<>>
    /\ reloadPending' = reloadPending - 1

-----------------------------------------------------------------------------
(* Errors and messages *)

pluginId == <<"n", "o", "d", "e", "b", "b", "-", "p", "l", "u", "g", "i", "n", "-", "a", "w", "s", "-", "s", "3", "-", "u", "p", "l", "o", "a", "d">>     \* library.js:24

NoError == [name |-> <<>>, message |-> <<>>]

\* new Error(message)
NewError(message) == [name |-> <<"E", "r", "r", "o", "r">>, message |-> message]

\* the ReferenceError strict-mode code raises on an identifier that is not declared
ReferenceError(identifier) ==
    [name |-> <<"R", "e", "f", "e", "r", "e", "n", "c", "e", "E", "r", "r", "o", "r">>, message |-> identifier \o <<" ", "i", "s", " ", "n", "o", "t", " ", "d", "e", "f", "i", "n", "e", "d">>]

\* library.js:99 and 152
fileTooBigMessage(maximumFileSize) ==
    <<"[", "[", "e", "r", "r", "o", "r", ":", "f", "i", "l", "e", "-", "t", "o", "o", "-", "b", "i", "g", ",", " ">> \o numberToString(maximumFileSize) \o <<"]", "]">>

\* library.js:98 and 151
fileTooBigLog(maximumFileSize) ==
    <<"e", "r", "r", "o", "r", ":", "f", "i", "l", "e", "-", "t", "o", "o", "-", "b", "i", "g", ",", " ">> \o numberToString(maximumFileSize)

\* library.js:121, 128 and 157
invalidFileTypeMessage(allowed) ==
    <<"[", "[", "e", "r", "r", "o", "r", ":", "i", "n", "v", "a", "l", "i", "d", "-", "f", "i", "l", "e", "-", "t", "y", "p", "e", ",", " ">> \o join(allowed, <<"&", "#", "4", "4", ";", " ">>) \o <<"]", "]">>

\* library.js:219
fetchFailedMessage(statusCode) ==
    <<"F", "a", "i", "l", "e", "d", " ", "t", "o", " ", "f", "e", "t", "c", "h", " ", "i", "m", "a", "g", "e", ".", " ", "S", "t", "a", "t", "u", "s", ":", " ">> \o numberToString(statusCode)

\* Error.prototype.toString, which `new Error(err)` applies to an Error argument
errorToString(err) ==
    IF Len(err.name) = 0 THEN err.message
    ELSE IF Len(err.message) = 0 THEN err.name
    ELSE err.name \o <<":", " ">> \o err.message

\* plugin.createError: the Error it returns; its message is what it logs
createError(err) ==
    IF err.isError
    THEN [name |-> err.name, message |-> pluginId \o <<" ", ":", ":", " ">> \o err.message]
    ELSE NewError(pluginId \o <<" ", ":", ":", " ">> \o err.message)

\* library.js:209, `new Error(plugin.createError(err))`
storageError(err) == NewError(errorToString(createError(err)))

-----------------------------------------------------------------------------
(* Requests *)

NoReq ==
    [present |-> FALSE, size |-> 0, path |-> <<>>, name |-> <<>>,
     originalname |-> <<>>, url |-> <<>>, folder |-> <<>>]

NoEnv == [maximumFileSize |-> 0, allowed |-> <<>>, remoteStatus |-> 0]

Sizes == {1024, 1025, 2049}
MaximumFileSizes == {1, 2}
Paths == {<<>>, <<"t", "/", "x">>, <<"t", "/", "x", ".", "P">>, <<"t", "/", "x", ".", "e">>}
OriginalNames == {<<>>, <<"o", ".", "p">>, <<"o", ".", "e">>}
Urls == {<<"u", "/", "i", ".", "p">>, <<"u", "/", "i", ".", "e">>}
Names == {<<"n", ".", "p">>, <<"n">>}
Folders == {<<>>, <<"f">>, <<"/", "f">>}
UploadAllowLists == {<<>>, << <<".", "p">> >>}
RemoteStatuses == {200, 404}
UuidTokens == {<<"U">>, <<"V">>}

\* a file on disk, as uploadFile and uploadImage get it
LocalFiles ==
    [present : {TRUE}, size : Sizes, path : Paths, name : Names,
     originalname : OriginalNames, url : {<<>>}, folder : Folders]

\* an image named by a URL
RemoteImages ==
    [present : {TRUE}, size : Sizes, path : {<<>>}, name : Names,
     originalname : {<<>>}, url : Urls, folder : Folders]

LocalEnvs ==
    [maximumFileSize : MaximumFileSizes, allowed : UploadAllowLists, remoteStatus : {0}]

RemoteEnvs ==
    [maximumFileSize : MaximumFileSizes, allowed : UploadAllowLists,
     remoteStatus : RemoteStatuses]

-----------------------------------------------------------------------------
(* The synchronous checks of uploadFile and uploadImage *)

Proceed == [next |-> "readFile", error |-> NoError, log |-> <<>>]
Throw(err, logged) == [next |-> "throw", error |-> err, log |-> logged]

\* library.js:97 and 150
tooBig(r, e) == r.size > e.maximumFileSize * 1024

\* plugin.uploadFile up to `await readFile` (library.js:138-160)
uploadFileChecks(r, e) ==
    IF ~ r.present THEN Throw(NewError(<<"i", "n", "v", "a", "l", "i", "d", " ", "f", "i", "l", "e">>), <<>>)
    ELSE IF Len(r.path) = 0 THEN Throw(NewError(<<"i", "n", "v", "a", "l", "i", "d", " ", "f", "i", "l", "e", " ", "p", "a", "t", "h">>), <<>>)
    ELSE IF tooBig(r, e)
         THEN Throw(NewError(fileTooBigMessage(e.maximumFileSize)),
                    <<fileTooBigLog(e.maximumFileSize)>>)
    ELSE IF ~ isExtensionAllowed(r.path, e.allowed)
         THEN Throw(NewError(invalidFileTypeMessage(e.allowed)), <<>>)
    ELSE Proceed

\* plugin.uploadImage up to its first await (library.js:88-134).  `callback`,
\* `name` and `imageDimension` are declared nowhere in the file, which is in
\* strict mode: reading or assigning them raises a ReferenceError.
uploadImageChecks(r, e) ==
    IF ~ r.present
    THEN Throw(ReferenceError(<<"c", "a", "l", "l", "b", "a", "c", "k">>), << <<"i", "n", "v", "a", "l", "i", "d", " ", "i", "m", "a", "g", "e">> >>)
    ELSE IF tooBig(r, e)
         THEN Throw(NewError(fileTooBigMessage(e.maximumFileSize)),
                    <<fileTooBigLog(e.maximumFileSize)>>)
    ELSE IF Len(r.url) = 0
         THEN \* type === 'file'
              IF Len(r.path) = 0 THEN Throw(NewError(<<"I", "n", "v", "a", "l", "i", "d", " ", "i", "m", "a", "g", "e", " ", "p", "a", "t", "h">>), <<>>)
              ELSE IF Len(r.originalname) = 0
                   THEN \* `name = image.path;`
                        Throw(ReferenceError(<<"n", "a", "m", "e">>), <<>>)
              ELSE IF ~ isExtensionAllowed(r.originalname, e.allowed)
                   THEN Throw(NewError(invalidFileTypeMessage(e.allowed)), <<>>)
              ELSE Proceed
         ELSE \* type === 'url'
              IF ~ isExtensionAllowed(r.url, e.allowed)
              THEN Throw(NewError(invalidFileTypeMessage(e.allowed)), <<>>)
              ELSE \* the arguments of downloadAndResizeImage are evaluated first
                   Throw(ReferenceError(<<"i", "m", "a", "g", "e", "D", "i", "m", "e", "n", "s", "i", "o", "n">>), <<>>)

-----------------------------------------------------------------------------
(* uploadToS3 (library.js:164-211) *)

\* library.js:165-175
s3PathOf(uploadPath) ==
    IF Len(uploadPath) > 0
    THEN IF uploadPath[Len(uploadPath)] # "/" THEN uploadPath \o <<"/">> ELSE uploadPath
    ELSE <<"/">>

\* s3Path.replace(/^\//, '')
stripLeadingSlash(s) ==
    IF Len(s) > 0 /\ s[1] = "/" THEN Tail(s) ELSE s

\* library.js:177-181
s3KeyPathOf(uploadPath, folder) ==
    stripLeadingSlash(s3PathOf(uploadPath))
        \o (IF Len(folder) > 0 THEN folder \o <<"/">> ELSE <<>>)

\* library.js:185
keyOf(uploadPath, folder, token, filename) ==
    s3KeyPathOf(uploadPath, folder) \o token \o extname(filename)

\* library.js:196-202
hostOf(bucket, hostSetting) ==
    IF Len(hostSetting) > 0
    THEN IF ~ startsWith(hostSetting, <<"h", "t", "t", "p">>)
         THEN <<"h", "t", "t", "p", ":", "/", "/">> \o hostSetting
         ELSE hostSetting
    ELSE <<"h", "t", "t", "p", "s", ":", "/", "/">> \o bucket

\* library.js:206
urlOf(bucket, hostSetting, key) == hostOf(bucket, hostSetting) \o <<"/">> \o key

NoParams == [Bucket |-> <<>>, Key |-> <<>>, ContentLength |-> 0]
NoClient == [region |-> <<>>, accessKeyId |-> <<>>, secretAccessKey |-> <<>>]
NoResult == [name |-> <<>>, url |-> <<>>]

\* what s3Client.send rejects with: Errors of the SDK, or a value that is no Error
SendFailures ==
    {[isError |-> TRUE,  name |-> <<"E", "r", "r", "o", "r">>,        message |-> <<"E", "C", "O", "N", "N", "R", "E", "S", "E", "T">>],
     [isError |-> TRUE,  name |-> <<"N", "o", "S", "u", "c", "h", "B", "u", "c", "k", "e", "t">>, message |-> <<"n", "o", " ", "b", "u", "c", "k", "e", "t">>],
     [isError |-> FALSE, name |-> <<>>,             message |-> <<"t", "i", "m", "e", "o", "u", "t">>]}

-----------------------------------------------------------------------------
(* The upload call, one action for each run between two awaits *)

UploadIdle ==
    /\ pc = "idle"
    /\ op = "none"
    /\ req = NoReq
    /\ env = NoEnv
    /\ params = NoParams
    /\ client = NoClient
    /\ used = <<>>
    /\ netIO = <<>>
    /\ stored = <<>>
    /\ status = "none"
    /\ result = NoResult
    /\ error = NoError
    /\ thrownAt = "none"
    /\ log = <<>>

\* the call starts: its checks run, and it either throws or reaches `await readFile`
Started(name, r, e, c) ==
    /\ op' = name
    /\ req' = r
    /\ env' = e
    /\ log' = c.log
    /\ IF c.next = "throw"
       THEN /\ pc' = "done"
            /\ status' = "thrown"
            /\ error' = c.error
            /\ thrownAt' = "checks"
       ELSE /\ pc' = "readFile"
            /\ UNCHANGED <<status, error, thrownAt>>
    /\ UNCHANGED <<params, client, used, netIO, stored, result>>

\* plugin.uploadFile(data), library.js:138-160
UploadFileCall ==
    /\ pc = "idle"
    /\ \E r \in LocalFiles \cup {NoReq}, e \in LocalEnvs :
         Started("uploadFile", r, e, uploadFileChecks(r, e))
    /\ UNCHANGED <<reloadVars, extVars>>

\* plugin.uploadImage(data), library.js:88-134
UploadImageCall ==
    /\ pc = "idle"
    /\ \E r \in LocalFiles \cup RemoteImages \cup {NoReq} :
         \E e \in (IF Len(r.url) > 0 THEN RemoteEnvs ELSE LocalEnvs) :
            Started("uploadImage", r, e, uploadImageChecks(r, e))
    /\ UNCHANGED <<reloadVars, extVars>>

\* plugin.downloadAndResizeImage(url, dimension) called on its own
\* (library.js:213-243): `https` is declared nowhere, so the promise's executor
\* raises a ReferenceError before a request is made
DownloadAndResizeImageCall ==
    /\ pc = "idle"
    /\ \E u \in Urls, code \in RemoteStatuses :
         /\ req' = [NoReq EXCEPT !.present = TRUE, !.url = u]
         /\ env' = [NoEnv EXCEPT !.remoteStatus = code]
    /\ op' = "downloadAndResizeImage"
    /\ pc' = "done"
    /\ status' = "thrown"
    /\ error' = ReferenceError(<<"h", "t", "t", "p", "s">>)
    /\ thrownAt' = "fetch"
    /\ UNCHANGED <<params, client, used, netIO, stored, result, log>>
    /\ UNCHANGED <<reloadVars, extVars>>

\* `await readFile(path)` settles (library.js:124, 160).  When it resolves,
\* uploadToS3 runs up to `await import('mime')` (library.js:165-188): it reads
\* uploadPath and bucket from plugin.settings and builds the key.
ReadFileDone ==
    /\ pc = "readFile"
    /\ \/ /\ \E token \in UuidTokens :
               params' = [Bucket |-> settings.bucket,
                          Key |-> keyOf(settings.uploadPath, req.folder, token, req.name),
                          ContentLength |-> req.size]
          /\ used' = [uploadPath |-> settings.uploadPath, bucket |-> settings.bucket]
          /\ pc' = "importMime"
          /\ UNCHANGED <<status, error, thrownAt>>
       \/ /\ pc' = "done"
          /\ status' = "thrown"
          /\ error' = NewError(<<"E", "N", "O", "E", "N", "T">>)
          /\ thrownAt' = "readFile"
          /\ UNCHANGED <<params, used>>
    /\ UNCHANGED <<op, req, env, client, netIO, stored, result, log>>
    /\ UNCHANGED <<reloadVars, extVars>>

\* `await import('mime')` resolves; constructS3 reads region and credentials
\* from plugin.settings and the PUT is sent (library.js:188-193, 245-253)
ImportMimeDone ==
    /\ pc = "importMime"
    /\ client' = [region |-> settings.region,
                  accessKeyId |-> settings.accessKeyId,
                  secretAccessKey |-> settings.secretAccessKey]
    /\ used' = used @@ [region |-> settings.region,
                        accessKeyId |-> settings.accessKeyId,
                        secretAccessKey |-> settings.secretAccessKey]
    /\ netIO' = netIO \o <<"S3Client", "PutObject">>
    /\ pc' = "send"
    /\ UNCHANGED <<op, req, env, params, stored, status, result, error, thrownAt, log>>
    /\ UNCHANGED <<reloadVars, extVars>>

\* a mutation: the catch block returns the result instead of throwing
SendFailsSwallowed ==
    /\ pc = "send"
    /\ \E failure \in SendFailures :
         log' = Append(log, createError(failure).message)
    /\ used' = used @@ [host |-> settings.host]
    /\ result' = [name |-> req.name,
                  url |-> urlOf(params.Bucket, settings.host, params.Key)]
    /\ status' = "returned"
    /\ pc' = "done"
    /\ UNCHANGED <<op, req, env, params, client, netIO, stored, error, thrownAt>>
    /\ UNCHANGED <<reloadVars, extVars>>

\* `await s3Client.send(...)` resolves: the object is stored; host is read from
\* plugin.settings and the result is returned (library.js:193-207)
SendSucceeds ==
    /\ pc = "send"
    /\ stored' = Append(stored, [Bucket |-> params.Bucket, Key |-> params.Key])
    /\ used' = used @@ [host |-> settings.host]
    /\ result' = [name |-> req.name,
                  url |-> urlOf(params.Bucket, settings.host, params.Key)]
    /\ status' = "returned"
    /\ pc' = "done"
    /\ UNCHANGED <<op, req, env, params, client, netIO, error, thrownAt, log>>
    /\ UNCHANGED <<reloadVars, extVars>>

\* `await s3Client.send(...)` rejects: nothing is stored; createError logs the
\* prefixed message and a new Error made of its result is thrown
\* (library.js:208-210, 255-263)
SendFails ==
    /\ pc = "send"
    /\ \E failure \in SendFailures :
         /\ log' = Append(log, createError(failure).message)
         /\ error' = storageError(failure)
    /\ status' = "thrown"
    /\ thrownAt' = "send"
    /\ pc' = "done"
    /\ UNCHANGED <<op, req, env, params, client, used, netIO, stored, result>>
    /\ UNCHANGED <<reloadVars, extVars>>

\* the caller has the outcome; the call's locals are gone
Return ==
    /\ pc = "done"
    /\ pc' = "idle"
    /\ op' = "none"
    /\ req' = NoReq
    /\ env' = NoEnv
    /\ params' = NoParams
    /\ client' = NoClient
    /\ used' = <<>>
    /\ netIO' = <<>>
    /\ stored' = <<>>
    /\ status' = "none"
    /\ result' = NoResult
    /\ error' = NoError
    /\ thrownAt' = "none"
    /\ log' = <<>>
    /\ UNCHANGED <<reloadVars, extVars>>

-----------------------------------------------------------------------------
(* isExtensionAllowed applied on its own *)

ExtAlphabet == {"a", "P", ".", "/"}
ExtPaths == UNION {[1..n -> ExtAlphabet] : n \in 0..MaxPathLen}
ExtAllowLists ==
    {<<>>, << <<".", "p">> >>, << <<".", "a">>, <<".", "p">> >>, << <<".">> >>, << <<".", "P">> >>}

ExtIdle ==
    /\ extPath = <<>>
    /\ extAllowed = <<>>
    /\ extDone = FALSE
    /\ extResult = FALSE

IsExtensionAllowedCall ==
    /\ ~ extDone
    /\ extDone' = TRUE
    /\ extResult' = isExtensionAllowed(extPath, extAllowed)
    /\ UNCHANGED <<extPath, extAllowed, reloadVars, uploadVars>>

-----------------------------------------------------------------------------
(* Specifications *)

ReloadIdle ==
    /\ reloadPending = 0
    /\ lastIncoming = <<>>

\* settings the uploads are checked with
BaseSettings ==
    [accessKeyId |-> <<"k">>, secretAccessKey |-> <<"s">>, region |-> <<"r">>,
     bucket |-> <<"b", "k", "t">>, uploadPath |-> <<>>, host |-> <<>>]
UploadPaths == {<<>>, <<"/">>, <<"a">>, <<"/", "a">>, <<"a", "/">>, <<"/", "/", "a">>}
Hosts == {<<>>, <<"e", "x", "a", "m", "p", "l", "e", ".", "c", "o", "m">>, <<"h", "t", "t", "p", "s", ":", "/", "/", "c", "d", "n", ".", "x">>, <<"h", "t", "t", "p", "b", "i", "n", ".", "o", "r", "g">>}
UploadSettings ==
    {[BaseSettings EXCEPT !.uploadPath = p, !.host = h] : p \in UploadPaths, h \in Hosts}

\* two complete settings hashes that differ in every field
Snapshot0 ==
    [accessKeyId |-> <<"k", "0">>, secretAccessKey |-> <<"s", "0">>, region |-> <<"r", "0">>,
     bucket |-> <<"b", "0">>, uploadPath |-> <<"p", "0">>, host |-> <<"h", "0">>]
Snapshot1 ==
    [accessKeyId |-> <<"k", "1">>, secretAccessKey |-> <<"s", "1">>, region |-> <<"r", "1">>,
     bucket |-> <<"b", "1">>, uploadPath |-> <<"p", "1">>, host |-> <<"h", "1">>]
Snapshots == {Snapshot0, Snapshot1}

UploadNext ==
    \/ UploadFileCall
    \/ UploadImageCall
    \/ DownloadAndResizeImageCall
    \/ ReadFileDone
    \/ ImportMimeDone
    \/ SendSucceeds
    \/ SendFails
    \/ Return

\* one upload call after another, the settings fixed
Init ==
    /\ settings \in UploadSettings
    /\ ReloadIdle
    /\ UploadIdle
    /\ ExtIdle

Next == UploadNext

Spec == Init /\ [][Next]_vars

\* reloadSettings calls alone, from the settings the plugin is loaded with
InitReload ==
    /\ settings = DefaultSettings
    /\ ReloadIdle
    /\ UploadIdle
    /\ ExtIdle

NextReload ==
    \/ /\ ReloadSettingsCall
       /\ UNCHANGED <<uploadVars, extVars>>
    \/ /\ ReloadSettingsResolve(PartialHashes)
       /\ UNCHANGED <<uploadVars, extVars>>
    \/ /\ ReloadSettingsResume
       /\ UNCHANGED <<uploadVars, extVars>>

SpecReload == InitReload /\ [][NextReload]_vars

\* upload calls interleaved with reloadSettings calls at the await points
InitRace ==
    /\ settings = Snapshot0
    /\ ReloadIdle
    /\ UploadIdle
    /\ ExtIdle

NextRace ==
    \/ UploadNext
    \/ /\ ReloadSettingsCall
       /\ UNCHANGED <<uploadVars, extVars>>
    \/ /\ ReloadSettingsResolve(Snapshots)
       /\ UNCHANGED <<uploadVars, extVars>>
    \/ /\ ReloadSettingsResume
       /\ UNCHANGED <<uploadVars, extVars>>

SpecRace == InitRace /\ [][NextRace]_vars

\* isExtensionAllowed on every path and allow-list of the bounded sets
InitExt ==
    /\ settings = DefaultSettings
    /\ ReloadIdle
    /\ UploadIdle
    /\ extPath \in ExtPaths
    /\ extAllowed \in ExtAllowLists
    /\ extDone = FALSE
    /\ extResult = FALSE

NextExt == IsExtensionAllowedCall

SpecExt == InitExt /\ [][NextExt]_vars

-----------------------------------------------------------------------------
(* Claims *)

isUpload == op \in {"uploadFile", "uploadImage"}

\* C1: a reloadSettings call that resumes with a settings hash leaves every
\* one of the six fields equal to the hash's value when the hash has the field
\* and it is not empty, and equal to the value stored before otherwise; no
\* other step of reloadSettings changes a field.
C1_ReloadOverridesNonEmptyOnly ==
    [][ IF lastIncoming # <<>> /\ lastIncoming' = <<>>
        THEN \A f \in Fields :
               settings'[f] =
                 IF f \in DOMAIN lastIncoming[1] /\ lastIncoming[1][f] # <<>>
                 THEN lastIncoming[1][f]
                 ELSE settings[f]
        ELSE settings' = settings ]_vars

\* C1 witness: four fields are set although no hash carries more than
\* MaxPresent of them, so a later reload kept what an earlier one had stored.
C1_Witness ==
    /\ lastIncoming = <<>>
    /\ reloadPending = 0
    /\ settings = [DefaultSettings EXCEPT !.bucket = <<"b">>, !.region = <<"a">>,
                                          !.host = <<"a">>, !.uploadPath = <<"b">>]

\* the request is one the checks can be applied to: the file or image is
\* there and names a path or a URL
wellFormed ==
    /\ isUpload
    /\ req.present
    /\ (Len(req.path) > 0 \/ (op = "uploadImage" /\ Len(req.url) > 0))

\* the name whose extension the request is judged by
judgedName ==
    IF op = "uploadImage" /\ Len(req.url) > 0 THEN req.url
    ELSE IF op = "uploadImage" /\ Len(req.originalname) > 0 THEN req.originalname
    ELSE req.path

extensionRejected ==
    /\ Len(env.allowed) > 0
    /\ ~ isExtensionAllowed(judgedName, env.allowed)

\* C2 (as claimed): a call whose size is over the limit or whose extension the
\* allow-list rejects ends with the size or the extension error, and has done
\* no network I/O.
C2_Original ==
    (wellFormed /\ (tooBig(req, env) \/ extensionRejected))
        => /\ status = "thrown"
           /\ error \in {NewError(fileTooBigMessage(env.maximumFileSize)),
                         NewError(invalidFileTypeMessage(env.allowed))}
           /\ netIO = <<>>

\* C3 (as claimed): the settings fields an upload call has read all come from
\* one of the settings hashes.
C3_Original ==
    \E snapshot \in Snapshots : \A f \in DOMAIN used : used[f] = snapshot[f]

\* C4: an upload call that has ended either returned {name, url} after exactly
\* one PUT stored an object under the key the url ends with, or threw with
\* nothing stored; until it has returned, nothing is stored.
C4_StoredIffReturned ==
    /\ stored # <<>> => status = "returned"
    /\ (pc = "done" /\ isUpload) =>
          \/ /\ status = "returned"
             /\ error = NoError
             /\ result.name = req.name
             /\ Len(stored) = 1
             /\ stored[1] = [Bucket |-> params.Bucket, Key |-> params.Key]
             /\ endsWith(result.url, <<"/">> \o stored[1].Key)
          \/ /\ status = "thrown"
             /\ error # NoError
             /\ result = NoResult
             /\ stored = <<>>

\* C4 witness: a PUT was sent and rejected, and the call threw with nothing stored.
C4_Witness ==
    /\ pc = "done"
    /\ isUpload
    /\ status = "thrown"
    /\ thrownAt = "send"
    /\ netIO = <<"S3Client", "PutObject">>
    /\ stored = <<>>

\* C5: isExtensionAllowed(p, A) is true exactly when A is empty, or the
\* lower-cased extension of p is not empty, is not "." and is in A.
C5_ExtensionAllowedIff ==
    extDone =>
      LET extension == toLowerCase(extname(extPath))
      IN  extResult <=>
            \/ Len(extAllowed) = 0
            \/ /\ extension # <<>>
               /\ extension # <<".">>
               /\ extension \in Range(extAllowed)

\* C5 witness: a path ending in a bare dot is rejected by a list that holds ".".
C5_Witness ==
    /\ extDone
    /\ extPath = <<"a", ".">>
    /\ extAllowed = << <<".">> >>
    /\ ~ extResult

\* C6 (as claimed): the key of a PUT never starts with "/".
C6_Original ==
    "PutObject" \in Range(netIO) => params.Key[1] # "/"

\* C7 (as claimed): the error of a failed PUT has the plugin identifier, " :: "
\* and the original message as its message, and that message was logged; an
\* error of any other step does not begin with the identifier.
C7_Original ==
    /\ (status = "thrown" /\ thrownAt = "send") =>
          /\ \E failure \in SendFailures :
                error.message = pluginId \o <<" ", ":", ":", " ">> \o failure.message
          /\ error.message \in Range(log)
    /\ (status = "thrown" /\ thrownAt # "send") =>
          ~ startsWith(error.message, pluginId \o <<" ", ":", ":", " ">>)

\* the host setting names a scheme
hasScheme(host) == contains(host, <<":", "/", "/">>)

\* C8 (as claimed): the url returned is https://<bucket>/<key> for an empty
\* host, <host>/<key> for a host with a scheme, http://<host>/<key> for a host
\* without one.
C8_Original ==
    status = "returned" =>
      result.url =
        (IF Len(settings.host) = 0 THEN <<"h", "t", "t", "p", "s", ":", "/", "/">> \o params.Bucket
         ELSE IF hasScheme(settings.host) THEN settings.host
         ELSE <<"h", "t", "t", "p", ":", "/", "/">> \o settings.host) \o <<"/">> \o params.Key

\* the image of the call is named by a URL that passes the call's checks
fetchesRemote ==
    \/ op = "downloadAndResizeImage"
    \/ /\ op = "uploadImage"
       /\ req.present
       /\ Len(req.url) > 0
       /\ ~ tooBig(req, env)
       /\ isExtensionAllowed(req.url, env.allowed)

\* C9 (as claimed): when the remote server answers the URL with a status
\* other than 200, the call ends with the fetch error that carries the status,
\* and no PUT is sent.
C9_Original ==
    (pc = "done" /\ fetchesRemote /\ env.remoteStatus # 200) =>
        /\ status = "thrown"
        /\ error = NewError(fetchFailedMessage(env.remoteStatus))
        /\ "PutObject" \notin Range(netIO)

\* C10 (as claimed): a local file that passes the size check is judged, under
\* a non-empty allow-list, by its original name when it has one and by its
\* path otherwise: it gets past the checks when that name is allowed, and ends
\* with the extension error when it is not.
C10_Original ==
    ( /\ pc # "idle"
      /\ isUpload
      /\ req.present
      /\ Len(req.url) = 0
      /\ Len(req.path) > 0
      /\ ~ tooBig(req, env)
      /\ Len(env.allowed) > 0 )
    => LET nameToCheck == IF Len(req.originalname) > 0 THEN req.originalname
                          ELSE req.path
       IN  IF isExtensionAllowed(nameToCheck, env.allowed)
           THEN thrownAt # "checks"
           ELSE /\ status = "thrown"
                /\ thrownAt = "checks"
                /\ error = NewError(invalidFileTypeMessage(env.allowed))

====
